---- MODULE Spec2Model ----
(***************************************************************************)
(* Session and authorization gateway of SaasDentista.                      *)
(*                                                                         *)
(*  - the edge middleware (middleware.ts, two revisions: the @supabase/ssr  *)
(*    one with a try/catch around the profile lookup, and the               *)
(*    auth-helpers one without it);                                         *)
(*  - the client AuthProvider (AuthContext) on top of AuthService.          *)
(*                                                                         *)
(* Strings that the code inspects character by character (paths, e-mail     *)
(* addresses, passwords) are sequences of one-character strings.            *)
(***************************************************************************)
EXTENDS Integers, Sequences, FiniteSets, Bags, TLC

(***************************************************************************)
(* Bounds of the model.                                                     *)
(***************************************************************************)
\* longest tail appended to a route prefix to build a request path
MaxTailLen == 2
\* number of AuthProvider operations that the model lets overlap
MaxOps == 2

(***************************************************************************)
(* Character sequences.                                                     *)
(***************************************************************************)
startsWith(s, p) == Len(s) >= Len(p) /\ SubSeq(s, 1, Len(p)) = p

SeqsUpTo(S, n) == UNION {[1..k -> S] : k \in 0..n}

\* route prefixes of the middleware
P_login == <<"/", "l", "o", "g", "i", "n">>
P_register == <<"/", "r", "e", "g", "i", "s", "t", "e", "r">>
P_authCallback == <<"/", "a", "u", "t", "h", "/", "c", "a", "l", "l", "b", "a", "c", "k">>
P_authReset == <<"/", "a", "u", "t", "h", "/", "r", "e", "s", "e", "t", "-", "p", "a", "s", "s", "w", "o", "r", "d">>
P_admin == <<"/", "a", "d", "m", "i", "n">>
P_settings == <<"/", "s", "e", "t", "t", "i", "n", "g", "s">>
P_users == <<"/", "u", "s", "e", "r", "s">>
P_reports == <<"/", "r", "e", "p", "o", "r", "t", "s">>
P_analytics == <<"/", "a", "n", "a", "l", "y", "t", "i", "c", "s">>
P_dashboard == <<"/", "d", "a", "s", "h", "b", "o", "a", "r", "d">>
\* pages of the application that no route list names
P_patients == <<"/", "p", "a", "t", "i", "e", "n", "t", "s">>
P_auth == <<"/", "a", "u", "t", "h">>
P_root == <<"/">>

publicRoutes_noCallback == {P_login, P_register, P_authReset}
publicRoutes_noLogin == {P_register, P_authCallback, P_authReset}
publicRoutes == {P_login, P_register, P_authCallback, P_authReset}
authRoutes_loginOnly == {P_login}
authRoutes == {P_login, P_register}
adminRoutes == {P_admin, P_settings, P_users}
dentistRoutes == {P_reports, P_analytics}
dentistRoles_adminOnly == {"admin"}
dentistRoles == {"admin", "dentist"}

isPublicRoute(pathname) == \E route \in publicRoutes : startsWith(pathname, route)
isAuthRoute(pathname) == \E route \in authRoutes : startsWith(pathname, route)
isAdminRoute(pathname) == \E route \in adminRoutes : startsWith(pathname, route)
isDentistRoute(pathname) == \E route \in dentistRoutes : startsWith(pathname, route)

(***************************************************************************)
(* Request paths: every prefix the code or the application knows, followed  *)
(* by every tail of at most MaxTailLen characters, and the root path.       *)
(***************************************************************************)
TailChars == {"/", "s", "%"}
Stems == {P_login, P_register, P_authCallback, P_authReset, P_admin, P_settings,
          P_users, P_reports, P_analytics, P_dashboard, P_patients, P_auth}
Paths == {P_root} \cup {p \o t : p \in Stems, t \in SeqsUpTo(TailChars, MaxTailLen)}

(***************************************************************************)
(* URLs of redirects.  new URL(path, req.url) keeps the path; the query is  *)
(* serialised by URLSearchParams (application/x-www-form-urlencoded): "/"   *)
(* and "%" are percent-encoded, letters and "-" are kept.                   *)
(***************************************************************************)
encodeChar(c) ==
  IF c = "/" THEN <<"%", "2", "F">>
  ELSE IF c = "%" THEN <<"%", "2", "5">>
  ELSE <<c>>

RECURSIVE encode(_)
encode(s) == IF s = <<>> THEN <<>> ELSE encodeChar(Head(s)) \o encode(Tail(s))

RECURSIVE decode(_)
decode(s) ==
  IF s = <<>> THEN <<>>
  ELSE IF Len(s) >= 3 /\ SubSeq(s, 1, 3) = <<"%", "2", "F">> THEN <<"/">> \o decode(SubSeq(s, 4, Len(s)))
  ELSE IF Len(s) >= 3 /\ SubSeq(s, 1, 3) = <<"%", "2", "5">> THEN <<"%">> \o decode(SubSeq(s, 4, Len(s)))
  ELSE <<Head(s)>> \o decode(Tail(s))

Q_redirectTo == <<"r", "e", "d", "i", "r", "e", "c", "t", "T", "o">>

\* NextResponse.redirect(new URL('/dashboard', req.url))
redirectDashboard == [kind |-> "redirect", pathname |-> P_dashboard, search |-> <<>>]

redirectLogin_noReturn(pathname) ==
  [kind |-> "redirect", pathname |-> P_login, search |-> <<>>]

\* redirectUrl.searchParams.set('redirectTo', pathname); NextResponse.redirect(redirectUrl)
redirectLogin(pathname) ==
  [kind |-> "redirect", pathname |-> P_login,
   search |-> <<"?">> \o Q_redirectTo \o <<"=">> \o encode(pathname)]

\* res, the NextResponse.next() built at the top of the handler
passThrough == [kind |-> "next", pathname |-> <<>>, search |-> <<>>]

\* the handler's promise rejects: the request fails
serverError == [kind |-> "error", pathname |-> <<>>, search |-> <<>>]

NoResponse == [kind |-> "none", pathname |-> <<>>, search |-> <<>>]

\* searchParams.get('redirectTo') on the redirect target
searchParam(search) ==
  IF startsWith(search, <<"?">> \o Q_redirectTo \o <<"=">>)
  THEN decode(SubSeq(search, Len(Q_redirectTo) + 3, Len(search)))
  ELSE <<>>

(***************************************************************************)
(* The middleware.                                                          *)
(***************************************************************************)
\* profiles.role: text check (role in (...)), nullable
Roles == {"admin", "dentist", "receptionist"}
RoleValues == Roles \cup {"NULL"}
\* what supabase.auth.getSession() gives the handler
SessionOutcomes == {"null", "valid", "throws"}
\* what the lookup in profiles gives: a row with its role, no row, an exception
ProfileOutcomes == RoleValues \cup {"none", "throws"}
\* the two revisions of middleware.ts
Handlers == {"ssr", "helpers"}

LookupProfile == [kind |-> "lookup", pathname |-> <<>>, search |-> <<>>]

\* the handler up to the profile lookup: what it returns, or LookupProfile
beforeProfile_noRootRule(pathname, sess) ==
  IF isAuthRoute(pathname) /\ sess = "valid" THEN redirectDashboard
  ELSE IF ~isPublicRoute(pathname) /\ sess # "valid" THEN redirectLogin(pathname)
  ELSE IF sess = "valid" /\ ~isPublicRoute(pathname) THEN LookupProfile
  ELSE passThrough

beforeProfile(pathname, sess) ==
  IF isAuthRoute(pathname) /\ sess = "valid" THEN redirectDashboard
  ELSE IF pathname = P_root /\ sess = "valid" THEN redirectDashboard
  ELSE IF ~isPublicRoute(pathname) /\ sess # "valid" THEN redirectLogin(pathname)
  ELSE IF sess = "valid" /\ ~isPublicRoute(pathname) THEN LookupProfile
  ELSE passThrough

\* the role checks on the row the lookup returned
roleChecks(pathname, role) ==
  IF isAdminRoute(pathname) /\ role # "admin" THEN redirectDashboard
  ELSE IF isDentistRoute(pathname) /\ role \notin dentistRoles THEN redirectDashboard
  ELSE passThrough

\* the handler from the profile lookup on
afterProfile_needsProfile(h, pathname, outcome) ==
  IF outcome = "throws" THEN (IF h = "ssr" THEN passThrough ELSE serverError)
  ELSE IF outcome = "none" THEN redirectDashboard
  ELSE roleChecks(pathname, outcome)

afterProfile(h, pathname, outcome) ==
  IF outcome = "throws" THEN (IF h = "ssr" THEN passThrough ELSE serverError)
  ELSE IF outcome = "none" THEN passThrough
  ELSE roleChecks(pathname, outcome)

\* the response of the handler to a request whose getSession and profile
\* lookup settle as given
mwResponse(h, pathname, sess, prof) ==
  IF sess = "throws" THEN serverError
  ELSE LET d == beforeProfile(pathname, sess)
       IN IF d = LookupProfile THEN afterProfile(h, pathname, prof) ELSE d

\* what the identity client may write while it validates or refreshes the
\* session: it sets the chunks of the session cookie and removes a chunk it no
\* longer needs; a removal writes the empty value
CookieWrites == {[name |-> "sb-auth-token.0", value |-> "t1"],
                 [name |-> "sb-auth-token.1", value |-> "t1"],
                 [name |-> "sb-auth-token.1", value |-> ""]}
MaxWrites == 2

\* res.cookies.set({ name, value, ...options }) on a response's cookie jar
setCookie(jar, w) == {c \in jar : c.name # w.name} \cup {w}

\* the cookies on `res` after the identity client's writes.  The set and remove
\* callbacks of the @supabase/ssr handler replace res by a new
\* NextResponse.next() and put only the cookie at hand on it; the
\* auth-helpers client writes every cookie on the one res it was given
RECURSIVE cookiesOnRes(_, _, _)
cookiesOnRes(h, jar, writes) ==
  IF writes = <<>> THEN jar
  ELSE cookiesOnRes(h, IF h = "ssr" THEN {Head(writes)} ELSE setCookie(jar, Head(writes)),
                    Tail(writes))

VARIABLES mwPc, handler, pathname, session, profile, lookups, response, cookieWrites, resCookies
VARIABLES user, loading, error, initialized, ops, authSession, dbProfile
VARIABLES navPc, location, history, pending, guard
VARIABLES svcPc, svcCall, svcProfile, svcResult, records, storage, clinic

mwVars == <<mwPc, handler, pathname, session, profile, lookups, response, cookieWrites, resCookies>>
authVars == <<user, loading, error, initialized, ops, authSession, dbProfile>>
navVars == <<navPc, location, history, pending, guard>>
svcVars == <<svcPc, svcCall, svcProfile, svcResult, records, storage, clinic>>
vars == <<mwVars, authVars, navVars, svcVars>>

MwInit ==
  /\ mwPc = "idle"
  /\ handler = "ssr"
  /\ pathname = P_root
  /\ session = "pending"
  /\ profile = "pending"
  /\ lookups = 0
  /\ response = NoResponse
  /\ cookieWrites = <<>>
  /\ resCookies = {}

\* a request enters the handler, which awaits supabase.auth.getSession().
\* Every invocation has a res and an identity client of its own and shares
\* nothing with the invocations before it: a behaviour follows one invocation
MwRequest(h, p) ==
  /\ mwPc = "idle"
  /\ mwPc' = "getSession"
  /\ handler' = h
  /\ pathname' = p
  /\ session' = "pending"
  /\ profile' = "pending"
  /\ lookups' = 0
  /\ response' = NoResponse
  /\ cookieWrites' = <<>>
  /\ resCookies' = {}
  /\ UNCHANGED <<authVars, navVars, svcVars>>

\* getSession() settles, the identity client having written the given cookies;
\* the handler runs up to the profile lookup or returns
MwGetSession(outcome, writes) ==
  /\ mwPc = "getSession"
  /\ session' = outcome
  /\ cookieWrites' = writes
  /\ resCookies' = cookiesOnRes(handler, resCookies, writes)
  /\ LET d == IF outcome = "throws" THEN serverError ELSE beforeProfile(pathname, outcome)
     IN IF d = LookupProfile
        THEN /\ mwPc' = "getProfile"
             /\ lookups' = lookups + 1
             /\ response' = response
        ELSE /\ mwPc' = "done"
             /\ lookups' = lookups
             /\ response' = d
  /\ UNCHANGED <<handler, pathname, profile, authVars, navVars, svcVars>>

\* the profile lookup settles; the handler returns
MwGetProfile(outcome) ==
  /\ mwPc = "getProfile"
  /\ profile' = outcome
  /\ response' = afterProfile(handler, pathname, outcome)
  /\ mwPc' = "done"
  /\ UNCHANGED <<handler, pathname, session, lookups, cookieWrites, resCookies, authVars, navVars, svcVars>>

\* the cookies on the response the handler returned: `return res` carries the
\* cookies of res; NextResponse.redirect(...) is a new response without any
responseCookies == IF response.kind = "next" THEN resCookies ELSE {}

MwNext ==
  \/ \E h \in Handlers, p \in Paths : MwRequest(h, p)
  \/ \E o \in SessionOutcomes, w \in SeqsUpTo(CookieWrites, MaxWrites) : MwGetSession(o, w)
  \/ \E o \in ProfileOutcomes : MwGetProfile(o)

(***************************************************************************)
(* lib/utils: the validations AuthService applies to its input.             *)
(***************************************************************************)
LowerChars == {"a", "b", "c", "d", "e", "f", "n"}
UpperChars == {"A"}
DigitChars == {"1", "2"}
\* [a-zA-Z\d@$!%*?&]
PasswordChars == LowerChars \cup UpperChars \cup DigitChars \cup {"@", "$", "!", "%", "*", "?", "&"}

\* /^[^\s@]+@[^\s@]+\.[^\s@]+$/
isValidEmail(email) ==
  \E i, j \in 1..Len(email) :
    /\ 1 < i /\ i + 1 < j /\ j < Len(email)
    /\ email[i] = "@" /\ email[j] = "."
    /\ \A k \in 1..Len(email) : k # i => email[k] \notin {" ", "@"}

\* /^(?=.*[a-z])(?=.*[A-Z])(?=.*\d)[a-zA-Z\d@$!%*?&]{8,}$/
isValidPassword(password) ==
  /\ \E k \in 1..Len(password) : password[k] \in LowerChars
  /\ \E k \in 1..Len(password) : password[k] \in UpperChars
  /\ \E k \in 1..Len(password) : password[k] \in DigitChars
  /\ \A k \in 1..Len(password) : password[k] \in PasswordChars
  /\ Len(password) >= 8

RECURSIVE trimStart(_)
trimStart(str) == IF str # <<>> /\ Head(str) = " " THEN trimStart(Tail(str)) ELSE str

RECURSIVE trimEnd(_)
trimEnd(str) ==
  IF str # <<>> /\ str[Len(str)] = " " THEN trimEnd(SubSeq(str, 1, Len(str) - 1)) ELSE str

trim(str) == trimEnd(trimStart(str))

GenericAuthError == "Ha ocurrido un error. Intenta de nuevo"

\* errorMessages[error] || 'Ha ocurrido un error. Intenta de nuevo'
formatAuthError(message) ==
  CASE message = "Invalid login credentials" -> "Credenciales de inicio de sesión inválidas"
    [] message = "Email not confirmed" -> "Email no confirmado. Por favor, verifica tu correo electrónico"
    [] message = "User already registered" -> "El usuario ya está registrado"
    [] message = "Password should be at least 6 characters" -> "La contraseña debe tener al menos 6 caracteres"
    [] message = "Unable to validate email address" -> "No se pudo validar la dirección de email"
    [] message = "Signup is disabled" -> "El registro está deshabilitado"
    [] message = "Too many requests" -> "Demasiadas solicitudes. Intenta de nuevo más tarde"
    [] OTHER -> GenericAuthError

InternalError == "Error interno del servidor"

(***************************************************************************)
(* Inputs of the client operations.                                         *)
(***************************************************************************)
ValidEmail == <<"a", "@", "b", ".", "c">>
Emails == {ValidEmail, <<"a", "b", ".", "c">>, <<"a", "@", "b", "c">>,
           <<"a", " ", "@", "b", ".", "c">>, <<>>}
StrongPassword == <<"A", "b", "c", "d", "e", "f", "1", "2">>
Passwords == {<<>>, <<"a", "b", "c", "d", "e">>, <<"a", "b", "c", "d", "e", "f">>,
              <<"A", "b", "c", "d", "e", "f", "1">>, StrongPassword,
              <<"A", "b", "c", "d", "e", "f", "1", "#">>}
FullNames == {<<>>, <<" ", "a", " ">>, <<"A", "n", "a">>}
Clinics == {"c1", "c2"}
\* the login form's data: valid credentials, with one field at a time varied
LoginInputs ==
  {[email |-> e, password |-> StrongPassword] : e \in Emails}
  \cup {[email |-> ValidEmail, password |-> pw] : pw \in Passwords}
\* the registration form's data: a valid form, with one field at a time varied
RegisterInputs ==
  {[email |-> e, password |-> StrongPassword, full_name |-> <<"A", "n", "a">>,
    clinic_id |-> "c1", role |-> "receptionist"] : e \in Emails}
  \cup {[email |-> ValidEmail, password |-> pw, full_name |-> <<"A", "n", "a">>,
         clinic_id |-> "c1", role |-> "receptionist"] : pw \in Passwords}
  \cup {[email |-> ValidEmail, password |-> StrongPassword, full_name |-> n,
         clinic_id |-> "c1", role |-> "receptionist"] : n \in FullNames}
  \cup {[email |-> ValidEmail, password |-> StrongPassword, full_name |-> <<"A", "n", "a">>,
         clinic_id |-> c, role |-> r] : c \in Clinics \cup {""}, r \in {"receptionist"}}
\* error.message values of the identity provider
ProviderMessages == {"Invalid login credentials", "Failed to fetch"}
CallOutcomes == {[kind |-> "ok", message |-> "null"], [kind |-> "throws", message |-> "null"]}
                  \cup {[kind |-> "error", message |-> m] : m \in ProviderMessages}

(***************************************************************************)
(* AuthService and AuthProvider.                                            *)
(*                                                                         *)
(* One subject, "u1".  The identity provider holds the browser session      *)
(* (authSession) and the profiles table holds the subject's row             *)
(* (dbProfile).  Every await of AuthService is a step of its own; the       *)
(* return of the service and the continuation of the provider after its     *)
(* await run in the same step (microtasks, nothing interleaves).            *)
(***************************************************************************)
NoRow == [id |-> "null", clinic_id |-> "null", role |-> "null"]
Rows == {[id |-> "u1", clinic_id |-> c, role |-> r] : c \in Clinics, r \in Roles}
NoUser == [id |-> "null", role |-> "null", profile |-> NoRow]

\* an AuthUser whose role is a default instead of the role of its profile
authUserOf_defaultRole(id, row) == [id |-> id, role |-> "receptionist", profile |-> row]

\* const authUser: AuthUser = { id, email, role: profile.role, profile, isAuthenticated: true }
authUserOf(id, row) == [id |-> id, role |-> row.role, profile |-> row]

Ret(u, e) == [user |-> u, error |-> e]

\* Partial<UserProfile>: "-" for a key the partial does not carry
NoArg == [clinic_id |-> "-", role |-> "-"]
Partials == {NoArg, [clinic_id |-> "c2", role |-> "-"]}

MutatingKinds == {"login", "register", "logout", "updatePassword", "updateProfile"}
OpKinds == MutatingKinds \cup {"resetPassword", "initialize"}

Op(kind, pc, arg) == [kind |-> kind, pc |-> pc, arg |-> arg]


InFlight == BagCardinality(ops)
Put(op) == ops (+) SetToBag({op})
Move(from, to) == (ops (-) SetToBag({from})) (+) SetToBag({to})
Drop(op) == ops (-) SetToBag({op})

AuthState == [user |-> user, loading |-> loading, error |-> error]

\* setLoading(true); setError(null)
started(a) == [a EXCEPT !.loading = TRUE, !.error = "null"]

\* the provider after its await: if (authError) { setError; return }
\* if (authUser) setUser(authUser)  /  setUser(null) in logout;  finally setLoading(false)
settled(kind, r, a) ==
  [user |-> IF r.error # "null" THEN a.user
            ELSE IF kind = "logout" THEN NoUser
            ELSE IF kind \in {"login", "register", "updateProfile"} /\ r.user # NoUser THEN r.user
            ELSE a.user,
   loading |-> FALSE,
   error |-> IF r.error # "null" THEN r.error ELSE a.error]

SetAuth(a) == user' = a.user /\ loading' = a.loading /\ error' = a.error

\* a call of the provider that starts an operation of the service
Start(op) ==
  /\ SetAuth(started(AuthState))
  /\ ops' = Put(op)

\* a call whose service returns before its first await
StartAndReturn(kind, r) ==
  /\ SetAuth(settled(kind, r, started(AuthState)))
  /\ ops' = ops

\* the last await of the service settles and the provider finishes
Finish(op, r) ==
  /\ SetAuth(settled(op.kind, r, AuthState))
  /\ ops' = Drop(op)

\* the service moves from one await to the next
Advance(op, pc) ==
  /\ ops' = Move(op, Op(op.kind, pc, op.arg))
  /\ UNCHANGED <<user, loading, error>>

AuthInit ==
  /\ user = NoUser
  /\ loading = TRUE
  /\ error = "null"
  /\ initialized = FALSE
  /\ ops = SetToBag({Op("initialize", "getUser", NoArg)})
  /\ authSession \in BOOLEAN
  /\ dbProfile \in {NoRow, [id |-> "u1", clinic_id |-> "c1", role |-> "receptionist"],
                    [id |-> "u1", clinic_id |-> "c1", role |-> "admin"]}

\* the checks of AuthService.login before it reaches the identity provider
loginValidation(credentials) ==
  IF ~isValidEmail(credentials.email) THEN "Email inválido"
  ELSE IF credentials.password = <<>> \/ Len(credentials.password) < 6
       THEN "La contraseña debe tener al menos 6 caracteres"
  ELSE "null"

login(credentials) ==
  /\ InFlight < MaxOps
  /\ LET v == loginValidation(credentials)
     IN IF v # "null" THEN StartAndReturn("login", Ret(NoUser, v))
        ELSE Start(Op("login", "signInWithPassword", NoArg))
  /\ UNCHANGED <<mwVars, navVars, svcVars, initialized, authSession, dbProfile>>

\* signInWithPassword settles
signInWithPassword(o, userFound) ==
  LET op == Op("login", "signInWithPassword", NoArg)
  IN /\ BagIn(op, ops)
     /\ IF o.kind = "throws" THEN Finish(op, Ret(NoUser, InternalError)) /\ UNCHANGED authSession
        ELSE IF o.kind = "error" THEN Finish(op, Ret(NoUser, formatAuthError(o.message))) /\ UNCHANGED authSession
        ELSE IF ~userFound THEN Finish(op, Ret(NoUser, "Usuario no encontrado")) /\ UNCHANGED authSession
        ELSE Advance(op, "getUserProfile") /\ authSession' = TRUE
     /\ UNCHANGED <<mwVars, navVars, svcVars, initialized, dbProfile>>

\* AuthService.getUserProfile: the row, or null on an error, no row or an exception
getUserProfile(o) == IF o.kind = "ok" THEN dbProfile ELSE NoRow

\* afterGetUserProfile with register returning no error when the re-read fails
afterGetUserProfile_registerSilent(kind, row) ==
  IF row = NoRow
  THEN CASE kind = "login" -> Ret(NoUser, "Perfil de usuario no encontrado")
         [] kind = "register" -> Ret(NoUser, "null")
         [] kind = "updateProfile" -> Ret(NoUser, "Error al obtener perfil actualizado")
  ELSE Ret(authUserOf("u1", row), "null")

\* what each caller of getUserProfile returns
afterGetUserProfile(kind, row) ==
  IF row = NoRow
  THEN CASE kind = "login" -> Ret(NoUser, "Perfil de usuario no encontrado")
         [] kind = "register" -> Ret(NoUser, "Error al obtener perfil de usuario")
         [] kind = "updateProfile" -> Ret(NoUser, "Error al obtener perfil actualizado")
  ELSE Ret(authUserOf("u1", row), "null")

\* the getUserProfile call of login, register or updateProfile settles
getUserProfileSettles(kind, o) ==
  /\ kind \in {"login", "register", "updateProfile"}
  /\ \E op \in BagToSet(ops) :
       /\ op.kind = kind /\ op.pc = "getUserProfile"
       /\ Finish(op, afterGetUserProfile(kind, getUserProfile(o)))
  /\ UNCHANGED <<mwVars, navVars, svcVars, initialized, authSession, dbProfile>>

\* supabase.auth.getUser(): the user of the browser session, if any
getUser(o) == IF o.kind = "ok" /\ authSession THEN "u1" ELSE "null"

\* useEffect of the provider: getCurrentUser is at its getUser call from the
\* first state on; it settles here
getUserSettlesInitialize(o) ==
  LET op == Op("initialize", "getUser", NoArg)
  IN /\ BagIn(op, ops)
     /\ IF o.kind = "throws" \/ getUser(o) = "null"
        THEN /\ user' = NoUser /\ loading' = FALSE /\ initialized' = TRUE
             /\ ops' = Drop(op)
             /\ UNCHANGED error
        ELSE Advance(op, "getUserProfile") /\ UNCHANGED initialized
     /\ UNCHANGED <<mwVars, navVars, svcVars, authSession, dbProfile>>

\* what getCurrentUser returns for the profile it read: if (!profile) return null
currentUserOf(row) == IF row = NoRow THEN NoUser ELSE authUserOf("u1", row)

\* getCurrentUser returns after getUserProfile; setUser(currentUser), then
\* setLoading(false) and setInitialized(true)
getUserProfileSettlesInitialize(o) ==
  LET op == Op("initialize", "getUserProfile", NoArg)
  IN /\ BagIn(op, ops)
     /\ user' = currentUserOf(getUserProfile(o))
     /\ loading' = FALSE
     /\ initialized' = TRUE
     /\ ops' = Drop(op)
     /\ UNCHANGED <<mwVars, navVars, svcVars, error, authSession, dbProfile>>

\* the checks of AuthService.register before it reaches the identity provider
registerValidation(data) ==
  IF ~isValidEmail(data.email) THEN "Email inválido"
  ELSE IF ~isValidPassword(data.password)
       THEN "La contraseña debe tener al menos 8 caracteres, una mayúscula, una minúscula y un número"
  ELSE IF data.full_name = <<>> \/ Len(trim(data.full_name)) < 2 THEN "El nombre completo es requerido"
  ELSE IF data.clinic_id = "" THEN "ID de clínica es requerido"
  ELSE "null"

register(data) ==
  /\ InFlight < MaxOps
  /\ LET v == registerValidation(data)
     IN IF v # "null" THEN StartAndReturn("register", Ret(NoUser, v))
        ELSE Start(Op("register", "signUp", [clinic_id |-> data.clinic_id, role |-> data.role]))
  /\ UNCHANGED <<mwVars, navVars, svcVars, initialized, authSession, dbProfile>>

\* signUp settles; confirmed: the account needs no e-mail confirmation and the
\* identity provider opens a session
signUp(o, userCreated, confirmed) ==
  \E op \in BagToSet(ops) :
     /\ op.kind = "register" /\ op.pc = "signUp"
     /\ IF o.kind = "throws" THEN Finish(op, Ret(NoUser, InternalError)) /\ UNCHANGED authSession
        ELSE IF o.kind = "error" THEN Finish(op, Ret(NoUser, formatAuthError(o.message))) /\ UNCHANGED authSession
        ELSE IF ~userCreated THEN Finish(op, Ret(NoUser, "Error al crear usuario")) /\ UNCHANGED authSession
        ELSE Advance(op, "insert") /\ authSession' = (authSession \/ confirmed)
     /\ UNCHANGED <<mwVars, navVars, svcVars, initialized, dbProfile>>

\* the insert into profiles settles (a second row for the subject violates the
\* primary key)
insertProfile(o) ==
  \E op \in BagToSet(ops) :
     /\ op.kind = "register" /\ op.pc = "insert"
     /\ IF o.kind = "throws"
        THEN Finish(op, Ret(NoUser, InternalError)) /\ UNCHANGED dbProfile
        ELSE IF o.kind = "error" \/ dbProfile # NoRow
        THEN Advance(op, "deleteUser") /\ UNCHANGED dbProfile
        ELSE /\ Advance(op, "getUserProfile")
             /\ dbProfile' = [id |-> "u1", clinic_id |-> op.arg.clinic_id, role |-> op.arg.role]
     /\ UNCHANGED <<mwVars, navVars, svcVars, initialized, authSession>>

\* supabase.auth.admin.deleteUser settles; its result is not read
deleteUser(o) ==
  \E op \in BagToSet(ops) :
     /\ op.kind = "register" /\ op.pc = "deleteUser"
     /\ IF o.kind = "throws" THEN Finish(op, Ret(NoUser, InternalError))
        ELSE Finish(op, Ret(NoUser, "Error al crear perfil de usuario"))
     /\ authSession' = IF o.kind = "ok" THEN FALSE ELSE authSession
     /\ UNCHANGED <<mwVars, navVars, svcVars, initialized, dbProfile>>

logout ==
  /\ InFlight < MaxOps
  /\ Start(Op("logout", "signOut", NoArg))
  /\ UNCHANGED <<mwVars, navVars, svcVars, initialized, authSession, dbProfile>>

\* the result of a service that makes one call and reads only its error
errorOnly(o) ==
  IF o.kind = "throws" THEN Ret(NoUser, InternalError)
  ELSE IF o.kind = "error" THEN Ret(NoUser, formatAuthError(o.message))
  ELSE Ret(NoUser, "null")

signOut(o) ==
  LET op == Op("logout", "signOut", NoArg)
  IN /\ BagIn(op, ops)
     /\ Finish(op, errorOnly(o))
     /\ authSession' = IF o.kind = "ok" THEN FALSE ELSE authSession
     /\ UNCHANGED <<mwVars, navVars, svcVars, initialized, dbProfile>>

resetPassword(email) ==
  /\ InFlight < MaxOps
  /\ IF ~isValidEmail(email) THEN StartAndReturn("resetPassword", Ret(NoUser, "Email inválido"))
     ELSE Start(Op("resetPassword", "resetPasswordForEmail", NoArg))
  /\ UNCHANGED <<mwVars, navVars, svcVars, initialized, authSession, dbProfile>>

resetPasswordForEmail(o) ==
  LET op == Op("resetPassword", "resetPasswordForEmail", NoArg)
  IN /\ BagIn(op, ops)
     /\ Finish(op, errorOnly(o))
     /\ UNCHANGED <<mwVars, navVars, svcVars, initialized, authSession, dbProfile>>

updatePassword(data) ==
  /\ InFlight < MaxOps
  /\ IF ~isValidPassword(data.newPassword)
     THEN StartAndReturn("updatePassword",
            Ret(NoUser, "La nueva contraseña debe tener al menos 8 caracteres, una mayúscula, una minúscula y un número"))
     ELSE Start(Op("updatePassword", "updateUser", NoArg))
  /\ UNCHANGED <<mwVars, navVars, svcVars, initialized, authSession, dbProfile>>

updateUser(o) ==
  LET op == Op("updatePassword", "updateUser", NoArg)
  IN /\ BagIn(op, ops)
     /\ Finish(op, errorOnly(o))
     /\ UNCHANGED <<mwVars, navVars, svcVars, initialized, authSession, dbProfile>>

updateProfile(partial) ==
  /\ InFlight < MaxOps
  /\ Start(Op("updateProfile", "getUser", partial))
  /\ UNCHANGED <<mwVars, navVars, svcVars, initialized, authSession, dbProfile>>

\* the getUser call of AuthService.updateProfile settles
getUserSettlesUpdateProfile(o) ==
  \E op \in BagToSet(ops) :
     /\ op.kind = "updateProfile" /\ op.pc = "getUser"
     /\ IF o.kind = "throws" THEN Finish(op, Ret(NoUser, InternalError))
        ELSE IF getUser(o) = "null" THEN Finish(op, Ret(NoUser, "Usuario no autenticado"))
        ELSE Advance(op, "update")
     /\ UNCHANGED <<mwVars, navVars, svcVars, initialized, authSession, dbProfile>>

\* .update(profile).eq('id', user.id) on the row
applyPartial(row, partial) ==
  IF row = NoRow THEN NoRow
  ELSE [row EXCEPT !.clinic_id = IF partial.clinic_id = "-" THEN @ ELSE partial.clinic_id,
                   !.role = IF partial.role = "-" THEN @ ELSE partial.role]

\* the update of profiles settles.  matched: the row-level policies of the
\* table let the update reach the subject's row; schemaDb.sql enables row
\* level security on profiles and declares policies for select and insert
\* only, under which an update matches no row and reports no error
update(o, matched) ==
  \E op \in BagToSet(ops) :
     /\ op.kind = "updateProfile" /\ op.pc = "update"
     /\ IF o.kind = "throws" THEN Finish(op, Ret(NoUser, InternalError)) /\ UNCHANGED dbProfile
        ELSE IF o.kind = "error" THEN Finish(op, Ret(NoUser, "Error al actualizar perfil")) /\ UNCHANGED dbProfile
        ELSE /\ Advance(op, "getUserProfile")
             /\ dbProfile' = IF matched THEN applyPartial(dbProfile, op.arg) ELSE dbProfile
     /\ UNCHANGED <<mwVars, navVars, svcVars, initialized, authSession>>

\* clearError resetting the whole auth state
clearError_resetsUser ==
  /\ error' = "null"
  /\ user' = NoUser
  /\ UNCHANGED <<mwVars, navVars, svcVars, loading, initialized, ops, authSession, dbProfile>>

\* const clearError = () => { setError(null) }
clearError ==
  /\ error' = "null"
  /\ UNCHANGED <<mwVars, navVars, svcVars, user, loading, initialized, ops, authSession, dbProfile>>

(***************************************************************************)
(* AuthGuard, once the component is mounted (isClient) and the provider is  *)
(* not loading: what it renders or where it sends the router.               *)
(***************************************************************************)
renderChildren == [kind |-> "children", href |-> <<>>]
routerPush(href) == [kind |-> "push", href |-> href]

AuthGuard(requireAuth, allowedRoles, u) ==
  IF requireAuth /\ u = NoUser THEN routerPush(P_login)
  ELSE IF allowedRoles # {} /\ u # NoUser /\ u.role \notin allowedRoles THEN routerPush(P_dashboard)
  ELSE IF ~requireAuth /\ u # NoUser THEN routerPush(P_dashboard)
  ELSE renderChildren

\* the pages of the application that wrap their content in an AuthGuard
PageGuards ==
  {[path |-> P_dashboard, requireAuth |-> TRUE, allowedRoles |-> {}],
   [path |-> P_login, requireAuth |-> FALSE, allowedRoles |-> {}],
   [path |-> P_register, requireAuth |-> FALSE, allowedRoles |-> {}]}

AuthNext ==
  \/ \E o \in CallOutcomes : getUserSettlesInitialize(o)
  \/ \E o \in CallOutcomes : getUserProfileSettlesInitialize(o)
  \/ \E c \in LoginInputs : login(c)
  \/ \E o \in CallOutcomes, f \in BOOLEAN : signInWithPassword(o, f)
  \/ \E k \in {"login", "register", "updateProfile"}, o \in CallOutcomes : getUserProfileSettles(k, o)
  \/ \E d \in RegisterInputs : register(d)
  \/ \E o \in CallOutcomes, f, c \in BOOLEAN : signUp(o, f, c)
  \/ \E o \in CallOutcomes : insertProfile(o)
  \/ \E o \in CallOutcomes : deleteUser(o)
  \/ logout
  \/ \E o \in CallOutcomes : signOut(o)
  \/ \E e \in Emails : resetPassword(e)
  \/ \E o \in CallOutcomes : resetPasswordForEmail(o)
  \/ \E pw \in Passwords : updatePassword([newPassword |-> pw])
  \/ \E o \in CallOutcomes : updateUser(o)
  \/ \E pt \in Partials : updateProfile(pt)
  \/ \E o \in CallOutcomes : getUserSettlesUpdateProfile(o)
  \/ \E o \in CallOutcomes, m \in BOOLEAN : update(o, m)
  \/ clearError

(***************************************************************************)
(* The services of the clinic's data (PatientService, AppointmentService,   *)
(* InvoiceService, FileService, ClinicService).  Every call is a static     *)
(* method with a client of its own; a behaviour follows one call.  The      *)
(* caller is the subject of the browser session (authSession, dbProfile).   *)
(***************************************************************************)
CreateKinds == {"createPatient", "createAppointment", "createInvoice"}
ClinicKinds == {"updateClinicConfig", "uploadLogo"}
SvcKinds == CreateKinds \cup {"uploadFile"} \cup ClinicKinds

\* the clinic_id the caller's data carries; "-" when it carries none
InputClinics == Clinics \cup {"-"}

NoCall == [kind |-> "none", clinic_id |-> "-"]
NoProfile == [clinic_id |-> "null", role |-> "undefined"]
\* { data, error }: data is the empty set for null
SvcRet(data, e) == [data |-> data, error |-> e]
NoResult == SvcRet({}, "pending")

\* .from('profiles').select('clinic_id').eq('id', user.id).single(): the one
\* column selected, or null on an error or when there is no row
selectClinicId(o) ==
  IF o.kind = "ok" /\ dbProfile # NoRow
  THEN [clinic_id |-> dbProfile.clinic_id, role |-> "undefined"]
  ELSE NoProfile

tableOf(kind) ==
  CASE kind = "createPatient" -> "patients"
    [] kind = "createAppointment" -> "appointments"
    [] kind = "createInvoice" -> "invoices"
    [] kind = "uploadFile" -> "patient_files"

\* the row with the clinic_id of the caller's data when it carries one
insertRow_inputWins(call, prof) ==
  [table |-> tableOf(call.kind),
   clinic_id |-> IF call.clinic_id # "-" THEN call.clinic_id ELSE prof.clinic_id]

\* .insert({ ...data, clinic_id: profile.clinic_id }): the key written last wins
insertRow(call, prof) ==
  [table |-> tableOf(call.kind), clinic_id |-> prof.clinic_id]

\* `clinics/${profile.clinic_id}/...` in the bucket of the call
objectOf(call, prof) ==
  [bucket |-> IF call.kind = "uploadFile" THEN "patient-files" ELSE "clinic-assets",
   clinic_id |-> prof.clinic_id]

insertError(kind) ==
  CASE kind = "createPatient" -> "Error al crear paciente"
    [] kind = "createAppointment" -> "Error al crear cita"
    [] kind = "createInvoice" -> "Error al crear factura"

permissionError(kind) ==
  IF kind = "updateClinicConfig" THEN "No tienes permisos para modificar la configuración"
  ELSE "No tienes permisos para subir el logo"

SvcInit ==
  /\ svcPc = "idle"
  /\ svcCall = NoCall
  /\ svcProfile = NoProfile
  /\ svcResult = NoResult
  /\ records = {}
  /\ storage = {}
  /\ clinic = [config |-> "old", logo_url |-> "old"]

SvcReturn(data, e) == svcPc' = "done" /\ svcResult' = SvcRet(data, e)
SvcAwait(pc) == svcPc' = pc /\ svcResult' = svcResult

\* a method of a service is called; it awaits supabase.auth.getUser()
SvcCall(kind, c) ==
  /\ svcPc = "idle"
  /\ svcPc' = "getUser"
  /\ svcCall' = [kind |-> kind, clinic_id |-> c]
  /\ UNCHANGED <<svcProfile, svcResult, records, storage, clinic, mwVars, authVars, navVars>>

\* getUser settles
SvcGetUser(o) ==
  /\ svcPc = "getUser"
  /\ IF o.kind = "throws" THEN SvcReturn({}, InternalError)
     ELSE IF getUser(o) = "null" THEN SvcReturn({}, "Usuario no autenticado")
     ELSE SvcAwait("getProfile")
  /\ UNCHANGED <<svcCall, svcProfile, records, storage, clinic, mwVars, authVars, navVars>>

\* the read of the caller's profile settles; the clinic methods then test
\* profile.role, the file checks of uploadLogo coming after that test
SvcGetProfile(o) ==
  /\ svcPc = "getProfile"
  /\ LET prof == selectClinicId(o)
     IN /\ svcProfile' = IF o.kind = "throws" THEN svcProfile ELSE prof
        /\ IF o.kind = "throws" THEN SvcReturn({}, InternalError)
           ELSE IF prof.clinic_id = "null" THEN SvcReturn({}, "Clínica no encontrada")
           ELSE IF svcCall.kind \in ClinicKinds /\ prof.role # "admin"
                THEN SvcReturn({}, permissionError(svcCall.kind))
           ELSE SvcAwait(CASE svcCall.kind \in CreateKinds -> "insert"
                           [] svcCall.kind = "updateClinicConfig" -> "update"
                           [] OTHER -> "upload")
  /\ UNCHANGED <<svcCall, records, storage, clinic, mwVars, authVars, navVars>>

\* a call of supabase.storage settles: the upload of uploadFile or uploadLogo,
\* or the removal of the uploaded object, whose result is not read
SvcStorage(o) ==
  /\ svcPc \in {"upload", "remove"}
  /\ LET obj == objectOf(svcCall, svcProfile)
         file == svcCall.kind = "uploadFile"
     IN IF svcPc = "upload"
        THEN IF o.kind = "throws" THEN SvcReturn({}, InternalError) /\ UNCHANGED storage
             ELSE IF o.kind = "error"
             THEN /\ SvcReturn({}, IF file THEN "Error al subir archivo" ELSE "Error al subir logo")
                  /\ UNCHANGED storage
             ELSE SvcAwait(IF file THEN "insert" ELSE "update") /\ storage' = storage \cup {obj}
        ELSE IF o.kind = "throws" THEN SvcReturn({}, InternalError) /\ UNCHANGED storage
             ELSE /\ SvcReturn({}, IF file THEN "Error al guardar referencia del archivo"
                                   ELSE "Error al actualizar logo")
                  /\ storage' = IF o.kind = "ok" THEN storage \ {obj} ELSE storage
  /\ UNCHANGED <<svcCall, svcProfile, records, clinic, mwVars, authVars, navVars>>

\* a write to a table settles: the insert of a create method or of uploadFile,
\* or the update of clinics
SvcTable(o) ==
  /\ svcPc \in {"insert", "update"}
  /\ IF o.kind = "throws"
     THEN SvcReturn({}, InternalError) /\ UNCHANGED <<records, clinic>>
     ELSE IF svcPc = "insert"
     THEN LET row == insertRow(svcCall, svcProfile)
          IN IF o.kind = "ok"
             THEN SvcReturn({row}, "null") /\ records' = records \cup {row} /\ UNCHANGED clinic
             ELSE /\ IF svcCall.kind = "uploadFile" THEN SvcAwait("remove")
                     ELSE SvcReturn({}, insertError(svcCall.kind))
                  /\ UNCHANGED <<records, clinic>>
     ELSE IF svcCall.kind = "updateClinicConfig"
     THEN IF o.kind = "ok"
          THEN SvcReturn({"clinic"}, "null") /\ clinic' = [clinic EXCEPT !.config = "new"]
                 /\ UNCHANGED records
          ELSE SvcReturn({}, "Error al actualizar configuración") /\ UNCHANGED <<records, clinic>>
     ELSE IF o.kind = "ok"
          THEN SvcReturn({objectOf(svcCall, svcProfile)}, "null")
                 /\ clinic' = [clinic EXCEPT !.logo_url = "new"] /\ UNCHANGED records
          ELSE SvcAwait("remove") /\ UNCHANGED <<records, clinic>>
  /\ UNCHANGED <<svcCall, svcProfile, storage, mwVars, authVars, navVars>>

SvcNext ==
  \/ \E k \in SvcKinds, c \in InputClinics : SvcCall(k, c)
  \/ \E o \in CallOutcomes : SvcGetUser(o)
  \/ \E o \in CallOutcomes : SvcGetProfile(o)
  \/ \E o \in CallOutcomes : SvcStorage(o)
  \/ \E o \in CallOutcomes : SvcTable(o)

(***************************************************************************)
(* The browser: a navigation passes the middleware, the page it reaches     *)
(* mounts its AuthGuard, and the guard and the forms push new locations.    *)
(* history holds the locations of the current chain of redirects.           *)
(***************************************************************************)
MaxHops == 4

Loc(p, q) == [pathname |-> p, search |-> q]
NoLocation == Loc(<<>>, <<>>)
NoPending == [kind |-> "none", target |-> <<>>]
NoGuard == [present |-> FALSE, requireAuth |-> FALSE, allowedRoles |-> {}]
Guard(requireAuth, allowedRoles) ==
  [present |-> TRUE, requireAuth |-> requireAuth, allowedRoles |-> allowedRoles]

\* the guard of the page at a path
guardAt(p) ==
  IF \E g \in PageGuards : g.path = p
  THEN LET g == CHOOSE x \in PageGuards : x.path = p IN Guard(g.requireAuth, g.allowedRoles)
  ELSE NoGuard

spinner == [kind |-> "spinner", href |-> <<>>]

\* the guard that renders children while the provider is loading
guardOutput_ignoresLoading(g, ld, u) ==
  IF ~g.present THEN renderChildren ELSE AuthGuard(g.requireAuth, g.allowedRoles, u)

\* what a mounted guard renders: if (!isClient || loading) the spinner
guardOutput(g, ld, u) ==
  IF ~g.present THEN renderChildren
  ELSE IF ld THEN spinner
  ELSE AuthGuard(g.requireAuth, g.allowedRoles, u)

\* what the middleware sees of the subject's session and profile
serverSession == IF authSession THEN "valid" ELSE "null"
serverProfile == IF dbProfile = NoRow THEN "none" ELSE dbProfile.role

\* const redirectTo = searchParams.get('redirectTo') || '/dashboard'
redirectTo(search) == IF searchParam(search) = <<>> THEN P_dashboard ELSE searchParam(search)

\* the pages a user opens by their address
NavPaths == {P_root, P_login, P_register, P_dashboard, P_admin, P_patients}

NavInit ==
  /\ navPc = "idle"
  /\ location = NoLocation
  /\ history = <<>>
  /\ pending = NoPending
  /\ guard = NoGuard

\* the user opens a page: the request goes to the middleware
NavOpen(p) ==
  /\ navPc = "idle"
  /\ navPc' = "request"
  /\ location' = Loc(p, <<>>)
  /\ history' = <<Loc(p, <<>>)>>
  /\ UNCHANGED <<pending, guard, mwVars, authVars, svcVars>>

\* the middleware answers the request for the location: a redirect sends the
\* browser on, the pass-through response mounts the page with isClient false
NavMiddleware ==
  /\ navPc = "request"
  /\ LET r == mwResponse("ssr", location.pathname, serverSession, serverProfile)
     IN IF r.kind = "redirect"
        THEN /\ Len(history) < MaxHops
             /\ location' = Loc(r.pathname, r.search)
             /\ history' = Append(history, location')
             /\ UNCHANGED <<navPc, guard>>
        ELSE /\ navPc' = "spinner"
             /\ guard' = guardAt(location.pathname)
             /\ UNCHANGED <<location, history>>
  /\ UNCHANGED <<pending, mwVars, authVars, svcVars>>

\* the mounted page renders again (isClient set, or the auth state changed):
\* the guard shows the spinner or the children, or pushes a location
NavRender ==
  /\ navPc \in {"spinner", "shown"}
  /\ LET out == guardOutput(guard, loading, user)
     IN IF out.kind = "push"
        THEN /\ Len(history) < MaxHops
             /\ navPc' = "request"
             /\ location' = Loc(out.href, <<>>)
             /\ history' = Append(history, location')
        ELSE /\ navPc' = IF out.kind = "spinner" THEN "spinner" ELSE "shown"
             /\ UNCHANGED <<location, history>>
  /\ UNCHANGED <<pending, guard, mwVars, authVars, svcVars>>

\* handleSubmit of the login page, the form being valid: await login(...)
LoginSubmit(credentials) ==
  /\ navPc = "shown" /\ location.pathname = P_login /\ pending = NoPending
  /\ loginValidation(credentials) = "null"
  /\ InFlight < MaxOps
  /\ Start(Op("login", "signInWithPassword", NoArg))
  /\ pending' = [kind |-> "login", target |-> redirectTo(location.search)]
  /\ UNCHANGED <<navPc, location, history, guard, mwVars, svcVars,
                 initialized, authSession, dbProfile>>

\* handleSubmit after its await: router.push(redirectTo), a navigation of its
\* own
NavAfterSubmit ==
  /\ pending # NoPending
  /\ ~\E op \in BagToSet(ops) : op.kind = pending.kind
  /\ pending' = NoPending
  /\ navPc' = "request"
  /\ location' = Loc(pending.target, <<>>)
  /\ history' = <<location'>>
  /\ UNCHANGED <<guard, mwVars, authVars, svcVars>>

NavNext ==
  \/ \E p \in NavPaths : NavOpen(p)
  \/ NavMiddleware
  \/ NavRender
  \/ \E c \in LoginInputs : LoginSubmit(c)
  \/ NavAfterSubmit
  \/ \E o \in CallOutcomes : getUserSettlesInitialize(o)
  \/ \E o \in CallOutcomes : getUserProfileSettlesInitialize(o)
  \/ \E o \in CallOutcomes, f \in BOOLEAN : signInWithPassword(o, f)
  \/ \E o \in CallOutcomes : getUserProfileSettles("login", o)

\* the client as it is constructed
ClientInit ==
  /\ user = NoUser /\ loading = TRUE /\ error = "null" /\ initialized = FALSE
  /\ ops = SetToBag({Op("initialize", "getUser", NoArg)})

Init == MwInit /\ AuthInit /\ NavInit /\ SvcInit

\* the services alone, for every caller: no session, no profile row, a row
\* without a clinic, rows of either clinic
SvcOnlyInit ==
  /\ MwInit /\ NavInit /\ SvcInit /\ ClientInit
  /\ authSession \in BOOLEAN
  /\ dbProfile \in {NoRow} \cup {[id |-> "u1", clinic_id |-> c, role |-> r] :
                                  c \in Clinics \cup {"null"}, r \in {"admin", "receptionist"}}

SpecServices == SvcOnlyInit /\ [][SvcNext]_vars

SpecNav == Init /\ [][NavNext]_vars

\* the middleware alone: the client stays as it is constructed
MwOnlyInit ==
  /\ MwInit /\ NavInit /\ SvcInit
  /\ user = NoUser /\ loading = TRUE /\ error = "null" /\ initialized = FALSE
  /\ ops = SetToBag({Op("initialize", "getUser", NoArg)})
  /\ authSession = FALSE /\ dbProfile = NoRow

SpecMiddleware == MwOnlyInit /\ [][MwNext]_vars

SpecAuth == Init /\ [][AuthNext]_vars

(***************************************************************************)
(* Properties of the middleware.  The route classes are restated here from *)
(* their prefixes, apart from the handler's own route tests.                *)
(***************************************************************************)
UnderAny(p, prefixes) == \E q \in prefixes : startsWith(p, q)
AdminRestricted(p) == UnderAny(p, {P_admin, P_settings, P_users})
RoleRestricted(p) == UnderAny(p, {P_reports, P_analytics})
AuthOnly(p) == UnderAny(p, {P_login, P_register})
Public(p) == UnderAny(p, {P_login, P_register, P_authCallback, P_authReset})
MwDone == mwPc = "done"
Allowed == response.kind = "next"
ToDashboard == response.kind = "redirect" /\ response.pathname = P_dashboard /\ response.search = <<>>
\* a redirect to /login whose redirectTo parameter reads back as the request path
ToLoginWithReturn ==
  /\ response.kind = "redirect"
  /\ response.pathname = P_login
  /\ startsWith(response.search, <<"?">> \o Q_redirectTo \o <<"=">>)
  /\ searchParam(response.search) = pathname

\* C1: on an admin-restricted path the middleware allows the request iff a
\* session is present and the resolved profile's role is admin; with no session
\* it redirects to /login, in every other case (any other role, no profile row,
\* a failed lookup) to /dashboard.
C1_AdminIffAdminRole ==
  (MwDone /\ AdminRestricted(pathname) /\ session \in {"null", "valid"}) =>
     /\ Allowed <=> (session = "valid" /\ profile = "admin")
     /\ (session = "null") => ToLoginWithReturn
     /\ (session = "valid" /\ profile # "admin") => ToDashboard

\* C2: with a valid session whose profile lookup throws or returns no row, a
\* request to an admin-restricted or role-restricted path is redirected, never
\* allowed.
C2_FailClosedOnProfileFailure ==
  (MwDone /\ session = "valid" /\ profile \in {"none", "throws"}
     /\ (AdminRestricted(pathname) \/ RoleRestricted(pathname))) =>
     response.kind = "redirect"

\* C3: a request without a session for a path that is not public is redirected
\* to /login with redirectTo equal to the request path, and no profile lookup
\* is made for it.
C3_UnauthenticatedToLogin ==
  (MwDone /\ ~Public(pathname) /\ session = "null") =>
     (ToLoginWithReturn /\ lookups = 0)

C3_Witness ==
  MwDone /\ pathname = P_admin /\ session = "null" /\ response.kind = "redirect"
    /\ response.search = <<"?">> \o Q_redirectTo \o <<"=", "%", "2", "F", "a", "d", "m", "i", "n">>

\* C4: on an auth-only path (/login, /register) the middleware allows the
\* request when there is no session and redirects to /dashboard when there is
\* one, without consulting the profile.
C4_AuthOnly ==
  (MwDone /\ AuthOnly(pathname) /\ session \in {"null", "valid"}) =>
     /\ lookups = 0 /\ profile = "pending"
     /\ (session = "null") => Allowed
     /\ (session = "valid") => ToDashboard

C4_Witness ==
  MwDone /\ pathname = P_register /\ session = "valid" /\ ToDashboard

\* C5: on a role-restricted path (/reports, /analytics) with a valid session,
\* role receptionist is redirected to /dashboard and roles dentist and admin
\* are allowed.
C5_RoleRestricted ==
  (MwDone /\ RoleRestricted(pathname) /\ session = "valid") =>
     /\ (profile = "receptionist") => ToDashboard
     /\ (profile \in {"dentist", "admin"}) => Allowed

C5_Witness ==
  MwDone /\ pathname = P_reports /\ session = "valid" /\ profile = "dentist" /\ Allowed

\* C6 (as claimed): on a public path the decision is Allow for every
\* combination of session and profile.
C6_PublicAlwaysAllowed ==
  (MwDone /\ Public(pathname) /\ session \in {"null", "valid"}) => Allowed

\* C6 (amended): on a public path the decision is Allow, except that a path
\* under /login or /register requested with a session is redirected to
\* /dashboard.
C6_PublicAllowedUnlessAuthOnly ==
  (MwDone /\ Public(pathname) /\ session \in {"null", "valid"}) =>
     /\ Allowed <=> ~(AuthOnly(pathname) /\ session = "valid")
     /\ ~Allowed => ToDashboard
     /\ lookups = 0

C6_Witness ==
  MwDone /\ pathname = P_authCallback /\ session = "valid" /\ Allowed

\* C7: on a protected path that is neither admin-restricted nor
\* role-restricted nor "/", a request with a valid session is allowed for every
\* role, for a missing profile and for a failed lookup (the revision of the
\* handler that catches the lookup's exception).
C7_ProtectedNeedsNoRole ==
  (MwDone /\ handler = "ssr" /\ session = "valid" /\ ~Public(pathname)
     /\ ~AdminRestricted(pathname) /\ ~RoleRestricted(pathname) /\ pathname # P_root) =>
     (Allowed /\ lookups = 1)

C7_Witness ==
  MwDone /\ handler = "ssr" /\ pathname = P_patients /\ session = "valid"
    /\ profile = "none" /\ Allowed

\* C8: "/" with a session is redirected to /dashboard before any role check,
\* "/" without a session is redirected to /login with redirectTo=/, and "/"
\* never yields the pass-through response.
C8_RootNeverShown ==
  (MwDone /\ pathname = P_root) =>
     /\ ~Allowed
     /\ lookups = 0
     /\ (session = "valid") => ToDashboard
     /\ (session = "null") => (ToLoginWithReturn /\ searchParam(response.search) = P_root)

C8_Witness ==
  MwDone /\ pathname = P_root /\ session = "valid" /\ ToDashboard /\ profile = "pending"

(***************************************************************************)
(* Properties of the AuthProvider.                                          *)
(***************************************************************************)
RECURSIVE CopiesOf(_, _)
CopiesOf(S, b) ==
  IF S = {} THEN 0
  ELSE LET o == CHOOSE x \in S : TRUE IN CopiesIn(o, b) + CopiesOf(S \ {o}, b)

\* the operations of the given kinds that have started and not finished
InFlightOf(kinds) == CopiesOf({o \in BagToSet(ops) : o.kind \in kinds}, ops)

\* C9: a login() called while another login() is in flight issues no
\* credential exchange of its own: at most one login has signInWithPassword
\* issued and its result not yet applied (every login in flight has issued
\* exactly one).
C9_OneCredentialExchange == InFlightOf({"login"}) <= 1

\* C10: at most one of login, register, logout, updatePassword, updateProfile
\* is in flight in every reachable state.
C10_OneMutatingOperation == InFlightOf(MutatingKinds) <= 1

\* a step in which an operation of the given kind finishes
Finishes(kind) == InFlightOf({kind})' < InFlightOf({kind})

\* C11: every logout() ends with the client anonymous: in the step in which a
\* logout finishes, whether signOut succeeded, returned an error or threw, the
\* user is null and loading is false.
C11_LogoutEndsAnonymous ==
  [][Finishes("logout") => (user' = NoUser /\ loading' = FALSE)]_vars

\* a step in which register, past a successful signUp, finishes because the
\* insert into profiles threw or failed, or because the re-read of the new
\* profile returned nothing
RegisterProfileFails ==
  /\ InFlightOf({"register"}) > 0
  /\ Finishes("register")
  /\ \/ \E o \in CallOutcomes : insertProfile(o)
     \/ \E o \in CallOutcomes : deleteUser(o)
     \/ \E o \in CallOutcomes : getUserProfile(o) = NoRow /\ getUserProfileSettles("register", o)

\* C12: when register() has created the account and creating or re-reading
\* the profile fails, the step that finishes the operation does not set the
\* user (an anonymous client stays anonymous) and leaves a non-null error.
C12_RegisterProfileFailure ==
  [][RegisterProfileFails => (user' = user /\ error' # "null" /\ loading' = FALSE)]_vars

C12_Witness ==
  /\ user = NoUser /\ error = "Error al crear perfil de usuario"
  /\ InFlight = 0 /\ ~loading /\ initialized

\* C13: the result of an operation that resolves after a newer operation has
\* started is dropped.  initializeAuth is in flight from construction, so every
\* other operation in flight with it is newer: the step in which initializeAuth
\* finishes while another operation is in flight leaves the user as the newer
\* operations made it.
C13_StaleInitializeDropped ==
  [][(Finishes("initialize") /\ InFlight > 1) => user' = user]_vars

(***************************************************************************)
(* Properties of the session cookies and of session validation.             *)
(***************************************************************************)
\* the cookies the identity client wrote during the request, each with the
\* value of its last write
WrittenCookies ==
  {cookieWrites[i] : i \in {j \in 1..Len(cookieWrites) :
     \A k \in (j + 1)..Len(cookieWrites) : cookieWrites[k].name # cookieWrites[j].name}}

\* C14: every response the middleware returns, the pass-through response and
\* each redirect, carries the cookies the identity client set or removed while
\* it validated the session during that request.
C14_ResponsesCarryCookies ==
  (MwDone /\ response.kind \in {"next", "redirect"}) => WrittenCookies \subseteq responseCookies

\* C15: when getSession throws, the request is handled as one without a
\* session: a public path is allowed, every other path is redirected to /login
\* with the return path, and no server error leaves the middleware.
C15_SessionFailureIsNoSession ==
  (MwDone /\ session = "throws") =>
     /\ response.kind # "error"
     /\ Public(pathname) => Allowed
     /\ ~Public(pathname) => ToLoginWithReturn

RowsFor(prof) ==
  IF prof = "none" THEN {NoRow}
  ELSE IF prof = "pending" THEN Rows \cup {NoRow}
  ELSE {row \in Rows : row.role = prof}

\* the users the client holds after initializeAuth for the session and the
\* profile the middleware saw
UsersFor(sess, prof) ==
  IF sess = "null" THEN {NoUser}
  ELSE IF sess = "valid" THEN {currentUserOf(row) : row \in RowsFor(prof)}
  ELSE {}

\* the guard's outcome and the middleware's response are the same decision
SameDecision(g, r) ==
  \/ g.kind = "children" /\ r.kind = "next"
  \/ g.kind = "push" /\ r.kind = "redirect" /\ g.href = r.pathname

\* C17: on every page that has a guard, AuthGuard's outcome (render children,
\* go to /login, go to /dashboard) is the middleware's decision (allow,
\* redirect to /login, redirect to /dashboard) for the same session, role and
\* page.
C17_GuardMatchesMiddleware ==
  MwDone =>
    \A g \in PageGuards : g.path = pathname =>
      \A u \in UsersFor(session, profile) :
        SameDecision(AuthGuard(g.requireAuth, g.allowedRoles, u), response)

\* a step in which initializeAuth finishes, for a browser that holds a
\* session, after getUser or the profile read threw
InitializeFails ==
  /\ authSession
  /\ \E o \in CallOutcomes :
       o.kind = "throws" /\ (getUserSettlesInitialize(o) \/ getUserProfileSettlesInitialize(o))

\* a step in which initializeAuth finishes because there is no session
InitializeNoSession ==
  \E o \in CallOutcomes : o.kind = "ok" /\ ~authSession /\ getUserSettlesInitialize(o)

\* C18: initialization ends authenticated, anonymous or in error: when the
\* identity provider or the profile store throws, it ends with an error
\* message set and not as plain anonymous; when there is simply no session, it
\* ends with the user null and sets no error.
C18_InitializeOutcomes ==
  [][/\ InitializeFails => (error' # "null" /\ user' = NoUser)
     /\ InitializeNoSession => (error' = error /\ user' = NoUser)]_vars

\* C19: updateProfile does not change the authentication status: in the step
\* in which an updateProfile finishes, on an initialized client with no other
\* operation in flight, the client is authenticated after it iff it was
\* authenticated before it.
C19_UpdateProfileKeepsStatus ==
  [][(Finishes("updateProfile") /\ initialized /\ InFlight = 1)
       => ((user' = NoUser) <=> (user = NoUser))]_vars

\* C20: clearError() sets error to null and leaves user and loading as they
\* are, in every state, also while another operation is in flight.
C20_ClearErrorOnlyClearsError ==
  [][clearError => (error' = "null" /\ user' = user /\ loading' = loading /\ ops' = ops)]_vars

\* a state in which clearError has an error to clear while the user is set and
\* another operation is in flight
C20_Witness ==
  /\ error = "Email inválido" /\ user # NoUser /\ initialized
  /\ InFlightOf({"updatePassword"}) = 1 /\ InFlight = 1

(***************************************************************************)
(* Properties of the services.                                              *)
(***************************************************************************)
SvcDone == svcPc = "done"
\* the caller has a session and a profile with a clinic
CallerHasClinic == authSession /\ dbProfile # NoRow /\ dbProfile.clinic_id # "null"

\* C21: every row and every object created by createPatient,
\* createAppointment, createInvoice or uploadFile carries the clinic_id of the
\* caller's profile, whatever clinic_id the caller's data carries; for a caller
\* without a session or without a profile with a clinic nothing is created and
\* the call returns an error.
C21_CreatedInCallersClinic ==
  /\ \A r \in records \cup storage : CallerHasClinic /\ r.clinic_id = dbProfile.clinic_id
  /\ (SvcDone /\ ~CallerHasClinic) =>
       (records = {} /\ storage = {} /\ svcResult.data = {} /\ svcResult.error # "null")

C21_Witness ==
  /\ SvcDone /\ svcCall = [kind |-> "createPatient", clinic_id |-> "c2"]
  /\ dbProfile.clinic_id = "c1"
  /\ records = {[table |-> "patients", clinic_id |-> "c1"]}
  /\ svcResult = SvcRet(records, "null")

\* C23: updateClinicConfig and uploadLogo are admin-only: once the caller's
\* profile (with a clinic) is read, a caller whose role is admin is not
\* rejected for lack of permission, and a caller with another role is rejected
\* with the permission error and the clinic stays as it was.
C23_ClinicUpdateAdminOnly ==
  (SvcDone /\ svcCall.kind \in ClinicKinds /\ svcProfile.clinic_id # "null") =>
     /\ (dbProfile.role = "admin") => svcResult.error # permissionError(svcCall.kind)
     /\ (dbProfile.role # "admin") =>
          (svcResult.error = permissionError(svcCall.kind)
             /\ clinic = [config |-> "old", logo_url |-> "old"])

\* C24: uploadFile leaves storage and database consistent: when it returns an
\* error no object uploaded by the call remains in storage, and when it
\* returns data both the object and its row exist.
C24_UploadFileConsistent ==
  (SvcDone /\ svcCall.kind = "uploadFile") =>
     /\ (svcResult.error # "null") => (storage = {} /\ records = {})
     /\ (svcResult.data # {}) =>
          (svcResult.error = "null" /\ records = svcResult.data
             /\ storage = {objectOf(svcCall, svcProfile)})

(***************************************************************************)
(* Properties of the pages and of navigation.                               *)
(***************************************************************************)
\* C22: after the login form is submitted the page navigates to the
\* post-login target only if the operation succeeded: in the step in which
\* handleSubmit pushes its target, the auth state has a user and no error.
C22_NavigateOnlyOnSuccess ==
  [][NavAfterSubmit => (user # NoUser /\ error = "null")]_vars

\* C25: for every combination of the guard's props, in every state of the
\* provider: the guard renders its children only if loading is false, and
\* (requireAuth => a user), (non-empty allowedRoles and a user => the user's
\* role is allowed), (~requireAuth => no user); while loading is true it
\* renders the spinner and pushes no location.
C25_GuardRendering ==
  \A ra \in BOOLEAN, roles \in SUBSET Roles :
    LET out == guardOutput(Guard(ra, roles), loading, user)
    IN /\ out.kind = "children" =>
            /\ ~loading
            /\ ra => user # NoUser
            /\ (roles # {} /\ user # NoUser) => user.role \in roles
            /\ ~ra => user = NoUser
       /\ loading => out = spinner

\* the dashboard's guard has rendered its children for a resolved user
C25_Witness ==
  /\ navPc = "shown" /\ guard.present /\ guard.requireAuth
  /\ ~loading /\ user # NoUser
  /\ guardOutput(guard, loading, user) = renderChildren

\* C26: navigation settles: the chain of redirects of the middleware and of
\* the guard never comes back to a location it has already been at (the
\* guard pushes only once the provider has stopped loading, so the second
\* visit finds the state of the first and the chain repeats for ever).
C26_NavigationSettles ==
  \A i, j \in 1..Len(history) : i < j => history[i] # history[j]

\* C27: loading is true in every state in which the initial session
\* resolution or an operation of the provider has started and not finished.
C27_LoadingWhileInFlight == InFlight > 0 => loading

\* the states of the profile the second evaluation can find: the one the first
\* evaluation looked up, or, if it returned before the lookup, any row or none
SameProfile == IF profile = "pending" THEN RoleValues \cup {"none"} ELSE {profile}

\* C28: server-side redirects never chain: whenever the handler has returned
\* a redirect, the handler evaluated on the redirect's target with the same
\* session and the same profile returns the pass-through response.
C28_RedirectsDoNotChain ==
  (MwDone /\ response.kind = "redirect") =>
    \A prof \in SameProfile :
      mwResponse(handler, response.pathname, session, prof) = passThrough

\* a redirect to /dashboard decided on the role of the profile that was read
C28_Witness ==
  /\ MwDone /\ response = redirectDashboard /\ profile \in RoleValues
  /\ mwResponse(handler, response.pathname, session, profile) = passThrough

\* C29: in every state of the provider a user that is not null carries a
\* resolved profile, and its role and id are those of that profile.
C29_UserCarriesProfile ==
  user # NoUser =>
    /\ user.profile # NoRow
    /\ user.role = user.profile.role
    /\ user.id = user.profile.id

\* an administrator has been set as the user and the provider is at rest
C29_Witness ==
  /\ user # NoUser /\ user.profile.role = "admin" /\ user.role = "admin"
  /\ InFlight = 0 /\ ~loading

\* C30: within one request the cookie writes accumulate on the response: the
\* pass-through response carries, for every name the identity client wrote,
\* the value of the last write under that name, a cookie written earlier
\* under another name included, and nothing else.
C30_CookieWritesAccumulate ==
  (MwDone /\ Allowed) => responseCookies = WrittenCookies
====
